---- MODULE Spec2Model ----
(***************************************************************************)
(* Canned Answers Service: the exact-key cache (GET/POST /canned) and the  *)
(* freeform question cache (POST /freeform, GET /freeform/match), as state *)
(* machines over the rows of the database, and the scoring functions of    *)
(* freeform_matching.  Every request handler runs on its own worker         *)
(* thread with its own SQLAlchemy session; a handler that writes is two    *)
(* database steps, the query and the commit, and the steps of different    *)
(* workers interleave.                                                      *)
(***************************************************************************)
EXTENDS Integers, Sequences, FiniteSets, TLC

\* Python None / SQL NULL.
None == "None"

\* ---------------------------------------------------------------- bounds
\* Number of request-handling worker threads.
NumWorkers == 2
\* Total number of requests the service accepts in one behaviour.
MaxRequests == 4

Workers == 1..NumWorkers

\* ---------------------------------------------------------------- inputs
\* schemas.CannedKey: the composite natural key of the exact-key cache.
CannedKey ==
    { [date |-> "2025-11-29", pf_meeting_id |-> 501, race_number |-> 3,
       prompt_type |-> pt] : pt \in {"value_play", "best_conditions"} }

\* The payload part of schemas.CannedAnswerIn (prompt_text is optional).
CannedBodies ==
    { [prompt_text |-> "Value Play", raw_response |-> "Horse 4"],
      [prompt_text |-> None, raw_response |-> "Horse 7"] }

\* schemas.CannedAnswerIn: key fields plus payload.
CannedAnswerIn ==
    { [date |-> k.date, pf_meeting_id |-> k.pf_meeting_id,
       race_number |-> k.race_number, prompt_type |-> k.prompt_type,
       prompt_text |-> b.prompt_text, raw_response |-> b.raw_response]
      : k \in CannedKey, b \in CannedBodies }

\* The parts of a fastapi Request that bump_usage reads: the x-forwarded-for
\* header (already split at ","; <<>> when the header is absent or empty),
\* the peer address, the user-agent header (None when absent), and the value
\* datetime.utcnow() returns while the request is handled.
Requests ==
    { [xff |-> <<"10.0.0.1", "172.16.0.9">>, host |-> "172.16.0.9",
       ua |-> "curl/8", now |-> "t1"],
      [xff |-> <<>>, host |-> "10.0.0.2", ua |-> None, now |-> "t2"] }

\* ----------------------------------------------------------------- state
VARIABLES
    canned,     \* the rows of table canned_answers
    nextId,     \* source of fresh primary keys (uuid4)
    pc,         \* per worker: "ready", or the commit its handler is about to run
    call,       \* per worker: the request being (or last) handled
    obj,        \* per worker: the ORM object its session loaded or built
    res,        \* per worker: the response of its last completed request
    started,    \* number of requests accepted so far
    accepted,   \* per key: the payload whose insert the store accepted (history)
    overlap,    \* per worker: its pending get has overlapped another get on the key (history)
    served,     \* per key: number of get_canned_answer commits (history)
    freeform,   \* the rows of table freeform_questions
    fn,         \* the call of a function of freeform_matching: arguments and result
    meeting_labels, \* the rows of table meeting_labels
    lru,        \* the lru_cache of fetch_meeting_labels, least recently used first
    fetched     \* per (start, end): the mapping the first returned call gave (history)

vars == <<canned, nextId, pc, call, obj, res, started, accepted, overlap, served,
          freeform, fn, meeting_labels, lru, fetched>>

NoCall == [op |-> "none"]
NoObj == [id |-> 0]
NoPayload == [prompt_text |-> None, raw_response |-> None]
NoRes == [status |-> "NONE", body |-> [detail |-> None]]
NoFn == [name |-> "none"]

\* The service after startup: empty tables, idle workers.
InitService ==
    /\ canned = {}
    /\ nextId = 1
    /\ pc = [p \in Workers |-> "ready"]
    /\ call = [p \in Workers |-> NoCall]
    /\ obj = [p \in Workers |-> NoObj]
    /\ res = [p \in Workers |-> NoRes]
    /\ started = 0
    /\ accepted = [k \in CannedKey |-> NoPayload]
    /\ overlap = [p \in Workers |-> FALSE]
    /\ served = [k \in CannedKey |-> 0]
    /\ freeform = {}
    /\ meeting_labels = {}
    /\ lru = <<>>
    /\ fetched = <<>>

Init == InitService /\ fn = NoFn

\* --------------------------------------------------------------- helpers
KeyOf(r) ==
    [date |-> r.date, pf_meeting_id |-> r.pf_meeting_id,
     race_number |-> r.race_number, prompt_type |-> r.prompt_type]

\* db.query(CannedAnswer).filter_by(date=, pf_meeting_id=, race_number=, prompt_type=)
filter_by(rows, key) ==
    { r \in rows : /\ r.date = key.date
                   /\ r.pf_meeting_id = key.pf_meeting_id
                   /\ r.race_number = key.race_number
                   /\ r.prompt_type = key.prompt_type }

\* The table without its unique constraint: every insert is accepted.
uq_canned_key_missing(rows, row) == TRUE

\* UniqueConstraint uq_canned_key: the insert of row is accepted only when no
\* stored row has the same (date, pf_meeting_id, race_number, prompt_type).
uq_canned_key(rows, row) == filter_by(rows, row) = {}

\* CannedAnswer(...) as create_canned_answer builds it; the usage metadata
\* columns are nullable and default to NULL.
CannedAnswer(id, payload) ==
    [id |-> id,
     date |-> payload.date, pf_meeting_id |-> payload.pf_meeting_id,
     race_number |-> payload.race_number, prompt_type |-> payload.prompt_type,
     prompt_text |-> payload.prompt_text, raw_response |-> payload.raw_response,
     use_count |-> 0,
     first_used_at |-> None, first_used_ip |-> None, first_used_ua |-> None,
     last_used_at |-> None, last_used_ip |-> None, last_used_ua |-> None]

\* schemas.CannedAnswerOut built from a row.
CannedAnswerOut(row) ==
    [date |-> row.date, pf_meeting_id |-> row.pf_meeting_id,
     race_number |-> row.race_number, prompt_type |-> row.prompt_type,
     raw_response |-> row.raw_response]

Ok(body) == [status |-> "OK", body |-> body]
\* HTTPException(status_code=404, detail=...)
NotFound(detail) == [status |-> "NOT_FOUND", body |-> [detail |-> detail]]
\* An exception no handler catches (IntegrityError, MultipleResultsFound):
\* the framework answers 500 and get_db closes the session, rolling back.
ServerError(detail) == [status |-> "SERVER_ERROR", body |-> [detail |-> detail]]

\* client_ip of bump_usage: first entry of x-forwarded-for, else the peer.
client_ip(request) ==
    IF request.xff # <<>> THEN Head(request.xff) ELSE request.host

\* bump_usage with the first_used guard copied onto the last_used fields.
bump_usage_stale_last(answer, request) ==
    LET counted == [answer EXCEPT !.use_count = answer.use_count + 1]
    IN IF counted.first_used_at = None
       THEN [counted EXCEPT !.first_used_at = request.now,
                            !.first_used_ip = client_ip(request),
                            !.first_used_ua = request.ua,
                            !.last_used_at = request.now,
                            !.last_used_ip = client_ip(request),
                            !.last_used_ua = request.ua]
       ELSE counted

\* bump_usage without the first_used fields.
bump_usage_no_first(answer, request) ==
    [answer EXCEPT !.use_count = answer.use_count + 1,
                   !.last_used_at = request.now,
                   !.last_used_ip = client_ip(request),
                   !.last_used_ua = request.ua]

\* bump_usage counting every read twice.
bump_usage_twice(answer, request) ==
    LET counted == [answer EXCEPT !.use_count = answer.use_count + 2]
        first == IF counted.first_used_at = None
                 THEN [counted EXCEPT !.first_used_at = request.now,
                                      !.first_used_ip = client_ip(request),
                                      !.first_used_ua = request.ua]
                 ELSE counted
    IN [first EXCEPT !.last_used_at = request.now,
                     !.last_used_ip = client_ip(request),
                     !.last_used_ua = request.ua]

\* bump_usage(answer, request): the attribute assignments on the loaded object.
bump_usage(answer, request) ==
    LET counted == [answer EXCEPT !.use_count = answer.use_count + 1]
        first == IF counted.first_used_at = None
                 THEN [counted EXCEPT !.first_used_at = request.now,
                                      !.first_used_ip = client_ip(request),
                                      !.first_used_ua = request.ua]
                 ELSE counted
    IN [first EXCEPT !.last_used_at = request.now,
                     !.last_used_ip = client_ip(request),
                     !.last_used_ua = request.ua]

\* db.add(row); db.commit() for a loaded object: the session's UPDATE sets,
\* on the row with the object's primary key, the columns whose value differs
\* from the value loaded, and leaves the other columns as stored.
update_row(rows, loaded, dirty) ==
    { IF r.id = loaded.id
      THEN [c \in DOMAIN r |-> IF dirty[c] # loaded[c] THEN dirty[c] ELSE r[c]]
      ELSE r : r \in rows }

\* Two gets on one key overlap when one runs its query while the other is
\* between its query and its commit.
PendingGets(key) ==
    { q \in Workers : pc[q] = "get_commit" /\ call[q].key = key }

Return(p, response) ==
    /\ pc' = [pc EXCEPT ![p] = "ready"]
    /\ res' = [res EXCEPT ![p] = response]
    /\ obj' = [obj EXCEPT ![p] = NoObj]

\* ------------------------------------------------- POST /canned (create)
\* A create that returns the caller's own payload instead of the stored entry.
return_existing_echo(p, existing, payload) ==
    /\ Return(p, Ok(CannedAnswerOut(payload)))
    /\ UNCHANGED canned

\* A create that overwrites the stored entry with the new payload (last write wins).
return_existing_upsert(p, existing, payload) ==
    LET merged == [existing EXCEPT !.prompt_text = payload.prompt_text,
                                   !.raw_response = payload.raw_response]
    IN /\ canned' = (canned \ {existing}) \cup {merged}
       /\ Return(p, Ok(CannedAnswerOut(merged)))

\* create_canned_answer, "if existing: return CannedAnswerOut(existing...)":
\* the stored entry is returned and nothing is written.
return_existing(p, existing, payload) ==
    /\ Return(p, Ok(CannedAnswerOut(existing)))
    /\ UNCHANGED canned

\* create_canned_answer, first step: the existence query, and the return of
\* the existing entry when there is one.
create_canned_answer_query(p, payload) ==
    /\ pc[p] = "ready"
    /\ started < MaxRequests
    /\ started' = started + 1
    /\ call' = [call EXCEPT ![p] = [op |-> "create", key |-> KeyOf(payload),
                                    payload |-> payload]]
    /\ overlap' = [overlap EXCEPT ![p] = FALSE]
    /\ LET found == filter_by(canned, payload) IN
       IF Cardinality(found) > 1
       THEN /\ Return(p, ServerError("MultipleResultsFound"))
            /\ UNCHANGED canned
       ELSE IF found # {}
       THEN return_existing(p, CHOOSE r \in found : TRUE, payload)
       ELSE /\ pc' = [pc EXCEPT ![p] = "create_commit"]
            /\ obj' = [obj EXCEPT ![p] = CannedAnswer(0, payload)]
            /\ res' = [res EXCEPT ![p] = NoRes]
            /\ UNCHANGED canned
    /\ UNCHANGED <<nextId, accepted, served, freeform, fn, meeting_labels, lru, fetched>>

\* A commit that resolves a key conflict by replacing the stored row.
create_canned_answer_commit_replace(p) ==
    /\ pc[p] = "create_commit"
    /\ LET row == [obj[p] EXCEPT !.id = nextId] IN
       /\ canned' = (canned \ filter_by(canned, row)) \cup {row}
       /\ nextId' = nextId + 1
       /\ accepted' = [accepted EXCEPT ![KeyOf(row)] =
                          IF @ = NoPayload THEN call[p].payload ELSE @]
       /\ Return(p, Ok(CannedAnswerOut(row)))
    /\ UNCHANGED <<call, started, overlap, served, freeform, fn, meeting_labels, lru, fetched>>

\* create_canned_answer, second step: db.add(row); db.commit(); db.refresh(row).
\* The INSERT is subject to uq_canned_key; its violation raises IntegrityError,
\* which create_canned_answer does not catch.
create_canned_answer_commit(p) ==
    /\ pc[p] = "create_commit"
    /\ LET row == [obj[p] EXCEPT !.id = nextId] IN
       IF uq_canned_key(canned, row)
       THEN /\ canned' = canned \cup {row}
            /\ nextId' = nextId + 1
            /\ accepted' = [accepted EXCEPT ![KeyOf(row)] =
                               IF @ = NoPayload THEN call[p].payload ELSE @]
            /\ Return(p, Ok(CannedAnswerOut(row)))
       ELSE /\ Return(p, ServerError("IntegrityError"))
            /\ UNCHANGED <<canned, nextId, accepted>>
    /\ UNCHANGED <<call, started, overlap, served, freeform, fn, meeting_labels, lru, fetched>>

\* ----------------------------------------------------- GET /canned (get)
\* A get that creates an empty entry on a miss (get-or-create).
get_miss_creates(p, key) ==
    /\ canned' = canned \cup
          {CannedAnswer(nextId, [date |-> key.date, pf_meeting_id |-> key.pf_meeting_id,
                                 race_number |-> key.race_number,
                                 prompt_type |-> key.prompt_type,
                                 prompt_text |-> None, raw_response |-> ""])}
    /\ Return(p, NotFound("No cached answer"))

\* get_canned_answer, "if not row: raise HTTPException(404)".
get_miss(p, key) ==
    /\ Return(p, NotFound("No cached answer"))
    /\ UNCHANGED canned

\* get_canned_answer, first step: the query by key, and the 404 on a miss.
get_canned_answer_query(p, key, request) ==
    /\ pc[p] = "ready"
    /\ started < MaxRequests
    /\ started' = started + 1
    /\ call' = [call EXCEPT ![p] = [op |-> "get", key |-> key,
                                    request |-> request]]
    /\ LET found == filter_by(canned, key) IN
       IF Cardinality(found) > 1
       THEN /\ Return(p, ServerError("MultipleResultsFound"))
            /\ overlap' = [overlap EXCEPT ![p] = FALSE]
            /\ UNCHANGED canned
       ELSE IF found = {}
       THEN /\ get_miss(p, key)
            /\ overlap' = [overlap EXCEPT ![p] = FALSE]
       ELSE /\ pc' = [pc EXCEPT ![p] = "get_commit"]
            /\ obj' = [obj EXCEPT ![p] = CHOOSE r \in found : TRUE]
            /\ res' = [res EXCEPT ![p] = NoRes]
            /\ overlap' = [q \in Workers |->
                             IF q = p THEN PendingGets(key) # {}
                             ELSE overlap[q] \/ q \in PendingGets(key)]
            /\ UNCHANGED canned
    /\ UNCHANGED <<nextId, accepted, served, freeform, fn, meeting_labels, lru, fetched>>

\* get_canned_answer, second step: bump_usage(row, request); db.add(row);
\* db.commit(); db.refresh(row); the response is built from the refreshed row.
get_canned_answer_commit(p) ==
    /\ pc[p] = "get_commit"
    /\ LET dirty == bump_usage(obj[p], call[p].request)
           rows == update_row(canned, obj[p], dirty)
           fresh == CHOOSE r \in rows : r.id = obj[p].id
       IN /\ canned' = rows
          /\ Return(p, Ok(CannedAnswerOut(fresh)))
    /\ served' = [served EXCEPT ![call[p].key] = @ + 1]
    /\ UNCHANGED <<nextId, call, started, accepted, overlap, freeform, fn, meeting_labels, lru, fetched>>

Next ==
    \/ \E p \in Workers, payload \in CannedAnswerIn :
          create_canned_answer_query(p, payload)
    \/ \E p \in Workers : create_canned_answer_commit(p)
    \/ \E p \in Workers, key \in CannedKey, request \in Requests :
          get_canned_answer_query(p, key, request)
    \/ \E p \in Workers : get_canned_answer_commit(p)

Spec == Init /\ [][Next]_vars

\* ====================================================== freeform questions
\* Text is a sequence of one-character strings.
UpperChars ==
    <<"A", "B", "C", "D", "E", "F", "G", "H", "I", "J", "K", "L", "M", "N", "O", "P", "Q", "R", "S", "T", "U", "V", "W", "X", "Y", "Z">>
LowerChars ==
    <<"a", "b", "c", "d", "e", "f", "g", "h", "i", "j", "k", "l", "m", "n", "o", "p", "q", "r", "s", "t", "u", "v", "w", "x", "y", "z">>
Digits == {"0", "1", "2", "3", "4", "5", "6", "7", "8", "9"}
\* The characters the regular expression class \s matches.
Whitespace == {" ", "\t", "\n", "\r"}

Range(f) == {f[i] : i \in DOMAIN f}

\* The lowercase letter of each uppercase letter.
LowerOf ==
    [c \in Range(UpperChars) |->
        LowerChars[CHOOSE i \in DOMAIN UpperChars : UpperChars[i] = c]]

\* str.lower() on one character.
lower(c) == IF c \in DOMAIN LowerOf THEN LowerOf[c] ELSE c

\* The characters the regular expression class \w matches: letters, digits
\* and the underscore.
WordChars == Range(UpperChars) \cup Range(LowerChars) \cup Digits \cup {"_"}

IsWordChar(c) == c \in WordChars

RECURSIVE split(_)
\* str.split(): the maximal runs of non-whitespace characters, in order.
split(text) ==
    IF text = <<>> THEN <<>>
    ELSE IF Head(text) \in Whitespace THEN split(Tail(text))
    ELSE LET n == IF \E i \in 1..Len(text) : text[i] \in Whitespace
                  THEN (CHOOSE i \in 1..Len(text) :
                           /\ text[i] \in Whitespace
                           /\ \A j \in 1..(i - 1) : text[j] \notin Whitespace) - 1
                  ELSE Len(text)
         IN <<SubSeq(text, 1, n)>> \o split(SubSeq(text, n + 1, Len(text)))

RECURSIVE join(_, _)
\* sep.join(words)
join(sep, words) ==
    IF words = <<>> THEN <<>>
    ELSE IF Len(words) = 1 THEN words[1]
    ELSE words[1] \o sep \o join(sep, Tail(words))

\* The normalization with the whitespace collapsed before the punctuation is
\* removed.
normalize_question_collapse_first(question) ==
    LET lowered == [i \in DOMAIN question |-> lower(question[i])]
        collapsed == join(<<" ">>, split(lowered))
    IN SelectSeq(collapsed, LAMBDA c : IsWordChar(c) \/ c \in Whitespace)

\* normalize_question: lowercase, re.sub(r'[^\w\s]', '', text), then
\* ' '.join(text.split()).
normalize_question(question) ==
    LET lowered == [i \in DOMAIN question |-> lower(question[i])]
        kept == SelectSeq(lowered, LAMBDA c : IsWordChar(c) \/ c \in Whitespace)
    IN join(<<" ">>, split(kept))

STOP_WORDS ==
    { <<"t", "h", "e">>,
      <<"a">>,
      <<"a", "n">>,
      <<"i", "s">>,
      <<"a", "r", "e">>,
      <<"i", "n">>,
      <<"t", "h", "i", "s">>,
      <<"f", "o", "r">>,
      <<"o", "f">>,
      <<"t", "o">>,
      <<"a", "n", "d">>,
      <<"o", "r">> }

\* tokenize_question: split the normalized text and drop the stop words.
tokenize_question(normalized) ==
    SelectSeq(split(normalized), LAMBDA t : t \notin STOP_WORDS)

\* tokens_to_json: json.dumps of a list of strings.  A token holds only
\* characters json.dumps writes unescaped.
tokens_to_json(tokens) ==
    <<"[">> \o join(<<",", " ">>,
                    [i \in DOMAIN tokens |-> <<"\"">> \o tokens[i] \o <<"\"">>])
            \o <<"]">>

\* schemas.FreeformQuestionKey: the race a freeform question is scoped to.
FreeformQuestionKey ==
    { [date |-> "2025-11-29", pf_meeting_id |-> 501, race_number |-> n]
      : n \in {3, 4} }

\* Question texts with their answers: two that differ in case, punctuation
\* and spacing only, and one of stop words and an underscore word.
Submissions ==
    { [question |-> <<"B", "e", "s", "t", " ", "b", "e", "t", "?">>, raw_response |-> "Horse 4"],
      [question |-> <<"b", "e", "s", "t", " ", " ", "B", "E", "T">>, raw_response |-> "Horse 7"],
      [question |-> <<"I", "s", " ", "a", "_", "b", " ", "t", "h", "e">>, raw_response |-> "Horse 9"] }

\* schemas.FreeformQuestionIn
FreeformQuestionIn ==
    { [date |-> k.date, pf_meeting_id |-> k.pf_meeting_id,
       race_number |-> k.race_number, question |-> q.question,
       raw_response |-> q.raw_response]
      : k \in FreeformQuestionKey, q \in Submissions }

\* Stored questions for the matcher: both tokenize to five tokens that
\* include best, value and play.
MatchSubmissions ==
    { [question |-> <<"W", "h", "a", "t", " ", "i", "s", " ", "t", "h", "e", " ", "b", "e",
              "s", "t", " ", "v", "a", "l", "u", "e", " ", "p", "l", "a", "y", " ", "i", "n",
              " ", "t", "h", "i", "s", " ", "r", "a", "c", "e", "?">>,
       raw_response |-> "Horse 4"],
      [question |-> <<"B", "e", "s", "t", " ", "v", "a", "l", "u", "e", " ", "p", "l", "a",
              "y", " ", "f", "o", "r", " ", "w", "h", "i", "c", "h", " ", "h", "o", "r", "s",
              "e", "?">>,
       raw_response |-> "Horse 7"] }

\* schemas.FreeformQuestionIn for the stored questions above.
MatchQuestionIn ==
    { [date |-> k.date, pf_meeting_id |-> k.pf_meeting_id,
       race_number |-> k.race_number, question |-> q.question,
       raw_response |-> q.raw_response]
      : k \in FreeformQuestionKey, q \in MatchSubmissions }

\* Query texts: one that tokenizes to best, value, play, and one of stop
\* words only.
MatchQueries ==
    { <<"T", "h", "e", " ", "b", "e", "s", "t", " ", "v", "a", "l", "u", "e", " ", "p", "l",
              "a", "y", "?">>,
      <<"t", "h", "e", " ", "a", " ", "a", "n">> }

\* The question texts the requests carry.
Texts ==
    { q.question : q \in Submissions \cup MatchSubmissions } \cup MatchQueries

\* normalize_question of each of these texts, evaluated once.
normalized_text == [text \in Texts |-> normalize_question(text)]

ScopeOf(r) ==
    [date |-> r.date, pf_meeting_id |-> r.pf_meeting_id,
     race_number |-> r.race_number]

\* db.query(FreeformQuestion).filter_by(date=, pf_meeting_id=, race_number=)
filter_by_scope(rows, scope) ==
    { r \in rows : /\ r.date = scope.date
                   /\ r.pf_meeting_id = scope.pf_meeting_id
                   /\ r.race_number = scope.race_number }

\* ....filter_by(date=, pf_meeting_id=, race_number=, question_normalized=)
filter_by_normalized(rows, scope, normalized) ==
    { r \in filter_by_scope(rows, scope) : r.question_normalized = normalized }

\* The table without a unique constraint on the normalized question.
uq_freeform_normalized_missing(rows, row) == TRUE

\* Table freeform_questions is unique on scope + normalized question: the
\* insert of row is accepted only when no stored row of its scope has its
\* question_normalized.
uq_freeform_normalized(rows, row) ==
    filter_by_normalized(rows, row, row.question_normalized) = {}

\* FreeformQuestion(...) as create_freeform_question builds it.
FreeformQuestion(id, payload, normalized, tokens_json) ==
    [id |-> id,
     date |-> payload.date, pf_meeting_id |-> payload.pf_meeting_id,
     race_number |-> payload.race_number,
     question |-> payload.question,
     question_normalized |-> normalized,
     question_tokens |-> tokens_json,
     raw_response |-> payload.raw_response,
     use_count |-> 0]

\* schemas.FreeformQuestionOut built from a row.
FreeformQuestionOut(row) ==
    [date |-> row.date, pf_meeting_id |-> row.pf_meeting_id,
     race_number |-> row.race_number, question |-> row.question,
     raw_response |-> row.raw_response, use_count |-> row.use_count]

\* The duplicate branch answering with the text of the request.
return_existing_question_echo(p, existing, payload) ==
    Return(p, Ok([FreeformQuestionOut(existing) EXCEPT
                     !.question = payload.question,
                     !.raw_response = payload.raw_response]))

\* create_freeform_question, `if existing:`: the response is built from the
\* stored row; nothing is written.
return_existing_question(p, existing, payload) ==
    Return(p, Ok(FreeformQuestionOut(existing)))

\* create_freeform_question, first step: normalize and tokenize, then the
\* duplicate query, and the return of the existing entry when there is one.
create_freeform_question_query(p, payload) ==
    /\ pc[p] = "ready"
    /\ started < MaxRequests
    /\ started' = started + 1
    /\ call' = [call EXCEPT ![p] = [op |-> "submit", key |-> ScopeOf(payload),
                                    payload |-> payload]]
    /\ LET normalized == normalized_text[payload.question]
           tokens == tokenize_question(normalized)
           tokens_json == tokens_to_json(tokens)
           found == filter_by_normalized(freeform, payload, normalized)
       IN IF Cardinality(found) > 1
          THEN Return(p, ServerError("MultipleResultsFound"))
          ELSE IF found # {}
          THEN return_existing_question(p, CHOOSE r \in found : TRUE, payload)
          ELSE /\ pc' = [pc EXCEPT ![p] = "submit_commit"]
               /\ obj' = [obj EXCEPT ![p] =
                            FreeformQuestion(0, payload, normalized, tokens_json)]
               /\ res' = [res EXCEPT ![p] = NoRes]
    /\ UNCHANGED <<freeform, nextId, canned, accepted, overlap, served, fn, meeting_labels, lru, fetched>>

\* create_freeform_question, second step: db.add(row); db.commit();
\* db.refresh(row).  The violation of the unique constraint raises
\* IntegrityError, which create_freeform_question does not catch.
create_freeform_question_commit(p) ==
    /\ pc[p] = "submit_commit"
    /\ LET row == [obj[p] EXCEPT !.id = nextId] IN
       IF uq_freeform_normalized(freeform, row)
       THEN /\ freeform' = freeform \cup {row}
            /\ nextId' = nextId + 1
            /\ Return(p, Ok(FreeformQuestionOut(row)))
       ELSE /\ Return(p, ServerError("IntegrityError"))
            /\ UNCHANGED <<freeform, nextId>>
    /\ UNCHANGED <<call, started, canned, accepted, overlap, served, fn, meeting_labels, lru, fetched>>

NextFreeform ==
    \/ \E p \in Workers, payload \in FreeformQuestionIn :
          create_freeform_question_query(p, payload)
    \/ \E p \in Workers : create_freeform_question_commit(p)

SpecFreeform == Init /\ [][NextFreeform]_vars

\* ============================================ freeform_matching: scoring
\* A similarity score is a Python float.  The model computes it as the exact
\* fraction n/d, with d > 0.  For token sets whose union has fewer than nine
\* tokens, the floats of jaccard_similarity and compute_similarity are ordered
\* among themselves, and against the thresholds used here, exactly as these
\* fractions are.
Frac(n, d) == [n |-> n, d |-> d]
Zero == Frac(0, 1)
One == Frac(1, 1)
FEq(x, y) == x.n * y.d = y.n * x.d
FLess(x, y) == x.n * y.d < y.n * x.d
FLeq(x, y) == x.n * y.d <= y.n * x.d
FAdd(x, y) == Frac(x.n * y.d + y.n * x.d, x.d * y.d)
FSub(x, y) == Frac(x.n * y.d - y.n * x.d, x.d * y.d)
FMul(x, y) == Frac(x.n * y.n, x.d * y.d)
FMin(x, y) == IF FLeq(x, y) THEN x ELSE y

\* round(confidence, 4): the nearest multiple of 1/10000.
round4(x) == Frac((2 * 10000 * x.n + x.d) \div (2 * x.d), 10000)

RECURSIVE json_strings(_)
\* The string literals of a JSON text, in order.
json_strings(text) ==
    IF \A i \in DOMAIN text : text[i] # "\"" THEN <<>>
    ELSE LET open == CHOOSE i \in DOMAIN text :
                        /\ text[i] = "\""
                        /\ \A j \in 1..(i - 1) : text[j] # "\""
             rest == SubSeq(text, open + 1, Len(text))
             close == CHOOSE i \in DOMAIN rest :
                         /\ rest[i] = "\""
                         /\ \A j \in 1..(i - 1) : rest[j] # "\""
         IN <<SubSeq(rest, 1, close - 1)>>
               \o json_strings(SubSeq(rest, close + 1, Len(rest)))

\* json_to_tokens: json.loads of the array of strings tokens_to_json wrote.
json_to_tokens(tokens_json) == json_strings(tokens_json)

\* Jaccard with the sum of the two sizes in place of the size of the union.
jaccard_similarity_sum(set_a, set_b) ==
    IF set_a = {} /\ set_b = {} THEN Zero
    ELSE Frac(Cardinality(set_a \cap set_b),
              Cardinality(set_a) + Cardinality(set_b))

\* jaccard_similarity: |A & B| / |A | B|, and 0.0 for two empty sets.
jaccard_similarity(set_a, set_b) ==
    IF set_a = {} /\ set_b = {} THEN Zero
    ELSE LET intersection == Cardinality(set_a \cap set_b)
             union == Cardinality(set_a \cup set_b)
         IN IF union > 0 THEN Frac(intersection, union) ELSE Zero

\* The similarity without the subset boost.
compute_similarity_no_boost(query_tokens, stored_tokens) ==
    jaccard_similarity(Range(query_tokens), Range(stored_tokens))

\* The boost applied to every non-empty query, subset or not.
compute_similarity_always_boost(query_tokens, stored_tokens) ==
    LET query_set == Range(query_tokens)
        stored_set == Range(stored_tokens)
        base_similarity == jaccard_similarity(query_set, stored_set)
    IN IF query_set # {}
       THEN FMin(One, FAdd(base_similarity,
                           FMul(FSub(One, base_similarity), Frac(1, 10))))
       ELSE base_similarity

\* compute_similarity: Jaccard of the two token sets, raised by a tenth of
\* its distance to 1.0 when the query set is non-empty and a subset of the
\* stored set.
compute_similarity(query_tokens, stored_tokens) ==
    LET query_set == Range(query_tokens)
        stored_set == Range(stored_tokens)
        base_similarity == jaccard_similarity(query_set, stored_set)
    IN IF query_set # {} /\ query_set \subseteq stored_set
       THEN LET boost == FMul(FSub(One, base_similarity), Frac(1, 10))
            IN FMin(One, FAdd(base_similarity, boost))
       ELSE base_similarity

\* find_best_match returned None.
NoMatch == [found |-> FALSE]

\* find_best_match returned the tuple (record, score).
Match(record, score) == [found |-> TRUE, record |-> record, score |-> score]

RECURSIVE best_of(_, _, _)
\* The loop of find_best_match over the candidates still to visit; best is
\* best_match / best_score so far.  A candidate is the tuple
\* <<record, stored_tokens>>.
best_of(query_tokens, candidates, best) ==
    IF candidates = <<>> THEN best
    ELSE LET record == Head(candidates)[1]
             stored_tokens == Head(candidates)[2]
             score == compute_similarity(query_tokens, stored_tokens)
         IN IF FLess(best.score, score)
            THEN best_of(query_tokens, Tail(candidates), Match(record, score))
            ELSE best_of(query_tokens, Tail(candidates), best)

\* find_best_match without the threshold gate.
find_best_match_no_gate(query_tokens, candidates, threshold) ==
    LET best == best_of(query_tokens, candidates,
                        [found |-> FALSE, score |-> Zero])
    IN IF best.found THEN Match(best.record, best.score) ELSE NoMatch

RECURSIVE last_best_of(_, _, _)
\* The loop with `score >= best_score`: a later candidate replaces an earlier
\* one of the same score.
last_best_of(query_tokens, candidates, best) ==
    IF candidates = <<>> THEN best
    ELSE LET score == compute_similarity(query_tokens, Head(candidates)[2])
         IN IF FLeq(best.score, score) /\ FLess(Zero, score)
            THEN last_best_of(query_tokens, Tail(candidates),
                              Match(Head(candidates)[1], score))
            ELSE last_best_of(query_tokens, Tail(candidates), best)

\* find_best_match keeping the last of the candidates with the best score.
find_best_match_last(query_tokens, candidates, threshold) ==
    LET best == last_best_of(query_tokens, candidates,
                             [found |-> FALSE, score |-> Zero])
    IN IF best.found /\ FLeq(threshold, best.score)
       THEN Match(best.record, best.score) ELSE NoMatch

\* find_best_match: best_match = None and best_score = 0.0, the loop, then
\* the threshold gate.
find_best_match(query_tokens, candidates, threshold) ==
    LET best == best_of(query_tokens, candidates,
                        [found |-> FALSE, score |-> Zero])
    IN IF best.found /\ FLeq(threshold, best.score)
       THEN Match(best.record, best.score) ELSE NoMatch

\* ---------------------------------------------------- GET /freeform/match
\* HTTPException(status_code=400, detail=...): INVALID_QUERY.
BadRequest(detail) == [status |-> "BAD_REQUEST", body |-> [detail |-> detail]]

\* schemas.FreeformMatchResult as match_freeform_question builds it.
FreeformMatchResult(row, confidence) ==
    [question |-> row.question, raw_response |-> row.raw_response,
     confidence |-> round4(confidence)]

\* The orders in which a query without ORDER BY may return a set of rows.
Orderings(rows) ==
    { order \in [1..Cardinality(rows) -> rows] :
        \A i, j \in DOMAIN order : order[i] = order[j] => i = j }

\* Two matches overlap when one runs its query while the other, with the
\* same winning row, is between its query and its commit.
PendingMatches(id) ==
    { q \in Workers : pc[q] = "match_commit" /\ obj[q].best_row.id = id }

\* The candidate query taking the rows of every race of the meeting.
candidates_query_any_race(rows, scope) ==
    { r \in rows : r.date = scope.date /\ r.pf_meeting_id = scope.pf_meeting_id }

\* candidates_db: db.query(FreeformQuestion).filter_by(date=, pf_meeting_id=,
\* race_number=).all(), as a set; the order of the list is not determined.
candidates_query(rows, scope) == filter_by_scope(rows, scope)

\* match_freeform_question from the candidate query to the choice of the
\* winner: 404 for an empty scope, the candidate list with the stored tokens
\* parsed, find_best_match, 404 when it returns None; else the handler goes
\* on to the commit with best_row and confidence.
match_lookup(p, scope, query_tokens, threshold) ==
    LET candidates_db == candidates_query(freeform, scope) IN
    IF candidates_db = {}
    THEN /\ Return(p, NotFound("No matching question found"))
         /\ overlap' = [overlap EXCEPT ![p] = FALSE]
    ELSE \E order \in Orderings(candidates_db) :
            LET candidates == [i \in DOMAIN order |->
                                 <<order[i], json_to_tokens(order[i].question_tokens)>>]
                result == find_best_match(query_tokens, candidates, threshold)
            IN IF ~result.found
               THEN /\ Return(p, NotFound("No matching question found"))
                    /\ overlap' = [overlap EXCEPT ![p] = FALSE]
               ELSE /\ pc' = [pc EXCEPT ![p] = "match_commit"]
                    /\ obj' = [obj EXCEPT ![p] =
                                 [best_row |-> result.record,
                                  confidence |-> result.score]]
                    /\ res' = [res EXCEPT ![p] = NoRes]
                    /\ overlap' = [q \in Workers |->
                          IF q = p THEN PendingMatches(result.record.id) # {}
                          ELSE overlap[q] \/ q \in PendingMatches(result.record.id)]

\* The handler without the check of the query tokens.
check_query_tokens_skipped(p, scope, query_tokens, threshold) ==
    match_lookup(p, scope, query_tokens, threshold)

\* match_freeform_question, `if not query_tokens:` raises 400 before any
\* query of the database.
check_query_tokens(p, scope, query_tokens, threshold) ==
    IF query_tokens = <<>>
    THEN /\ Return(p, BadRequest("Query contains only stop words or is empty"))
         /\ overlap' = [overlap EXCEPT ![p] = FALSE]
    ELSE match_lookup(p, scope, query_tokens, threshold)

\* match_freeform_question, first step: normalize and tokenize the query,
\* check it, query the candidates of the scope and choose the winner.
match_freeform_question_query(p, scope, question, threshold) ==
    /\ pc[p] = "ready"
    /\ started < MaxRequests
    /\ started' = started + 1
    /\ call' = [call EXCEPT ![p] = [op |-> "match", key |-> scope,
                                    question |-> question,
                                    threshold |-> threshold]]
    /\ LET query_normalized == normalized_text[question]
           query_tokens == tokenize_question(query_normalized)
       IN check_query_tokens(p, scope, query_tokens, threshold)
    /\ UNCHANGED <<freeform, nextId, canned, accepted, served, fn, meeting_labels, lru, fetched>>

\* The use counter set to 1 whatever it was.
bump_use_count_reset(best_row) == [best_row EXCEPT !.use_count = 1]

\* best_row.use_count = (best_row.use_count or 0) + 1
bump_use_count(best_row) == [best_row EXCEPT !.use_count = @ + 1]

\* match_freeform_question, second step: the use counter of the loaded row is
\* raised, db.add(best_row); db.commit(); the response reads question and
\* raw_response of the row, which the commit expired, from the database.
match_freeform_question_commit(p) ==
    /\ pc[p] = "match_commit"
    /\ LET best_row == obj[p].best_row
           rows == update_row(freeform, best_row, bump_use_count(best_row))
           fresh == CHOOSE r \in rows : r.id = best_row.id
       IN /\ freeform' = rows
          /\ Return(p, Ok(FreeformMatchResult(fresh, obj[p].confidence)))
    /\ UNCHANGED <<nextId, call, started, canned, accepted, overlap, served, fn, meeting_labels, lru, fetched>>

\* Values of the threshold parameter of /freeform/match: 0.60 and the
\* default 0.70.
MatchThresholds == { Frac(3, 5), Frac(7, 10) }

\* Total number of submit and match requests in one behaviour of the matcher.
MaxMatchRequests == 3

NextMatch ==
    \/ \E p \in Workers, payload \in MatchQuestionIn :
          started < MaxMatchRequests /\ create_freeform_question_query(p, payload)
    \/ \E p \in Workers : create_freeform_question_commit(p)
    \/ \E p \in Workers, scope \in FreeformQuestionKey,
          question \in MatchQueries, threshold \in MatchThresholds :
          /\ started < MaxMatchRequests
          /\ match_freeform_question_query(p, scope, question, threshold)
    \/ \E p \in Workers : match_freeform_question_commit(p)

SpecMatch == Init /\ [][NextMatch]_vars

\* ------------------------------------------- the scoring functions, called
\* Longest token list given to compute_similarity.
MaxTokens == 2
\* Longest candidate list given to find_best_match.
MaxCandidates == 3

\* Tokens as tokenize_question produces them.
Vocabulary ==
    { <<"b", "e", "s", "t">>, <<"v", "a", "l", "u", "e">>,
      <<"p", "l", "a", "y">>, <<"r", "a", "c", "e">> }

\* Token lists, repeated tokens included.
TokenLists == UNION { [1..k -> Vocabulary] : k \in 0..MaxTokens }

\* The variables of the service, which a call of a scoring function neither
\* reads nor writes.
service == <<canned, nextId, pc, call, obj, res, started, accepted, overlap,
             served, freeform, meeting_labels, lru, fetched>>

\* Calls of jaccard_similarity(set_a, set_b) and of
\* compute_similarity(query_tokens, stored_tokens), not yet returned.
InitSimilarity ==
    /\ InitService
    /\ \/ \E set_a \in SUBSET Vocabulary, set_b \in SUBSET Vocabulary :
             fn = [name |-> "jaccard_similarity", set_a |-> set_a,
                   set_b |-> set_b, returned |-> FALSE, result |-> Zero]
       \/ \E query_tokens \in TokenLists, stored_tokens \in TokenLists :
             fn = [name |-> "compute_similarity",
                   query_tokens |-> query_tokens,
                   stored_tokens |-> stored_tokens,
                   returned |-> FALSE, result |-> Zero]

call_jaccard_similarity ==
    /\ fn.name = "jaccard_similarity" /\ ~fn.returned
    /\ fn' = [fn EXCEPT !.returned = TRUE,
                        !.result = jaccard_similarity(fn.set_a, fn.set_b)]
    /\ UNCHANGED service

call_compute_similarity ==
    /\ fn.name = "compute_similarity" /\ ~fn.returned
    /\ fn' = [fn EXCEPT !.returned = TRUE,
                        !.result = compute_similarity(fn.query_tokens,
                                                      fn.stored_tokens)]
    /\ UNCHANGED service

NextSimilarity == call_jaccard_similarity \/ call_compute_similarity

SpecSimilarity == InitSimilarity /\ [][NextSimilarity]_vars

\* Query token lists and stored token lists for find_best_match: scores 0,
\* 0.5, 0.55 and 1.0 occur, and different stored lists tie.
QueryTokenLists ==
    { <<>>, << <<"b", "e", "s", "t">> >>,
      << <<"b", "e", "s", "t">>, <<"p", "l", "a", "y">> >> }
StoredTokenLists ==
    { << <<"b", "e", "s", "t">> >>, << <<"p", "l", "a", "y">> >>,
      << <<"b", "e", "s", "t">>, <<"p", "l", "a", "y">> >>,
      << <<"r", "a", "c", "e">> >> }
\* Values of the threshold parameter, within its range 0.0 to 1.0.
Thresholds == { Zero, Frac(1, 2), Frac(7, 10), One }

\* Candidate lists: candidate i is the tuple (record i, its stored tokens).
CandidateLists ==
    UNION { { [i \in 1..k |-> <<i, stored[i]>>] :
                stored \in [1..k -> StoredTokenLists] } : k \in 0..MaxCandidates }

\* Calls of find_best_match(query_tokens, candidates, threshold), not yet
\* returned.
InitBestMatch ==
    /\ InitService
    /\ \E query_tokens \in QueryTokenLists, candidates \in CandidateLists,
          threshold \in Thresholds :
          fn = [name |-> "find_best_match", query_tokens |-> query_tokens,
                candidates |-> candidates, threshold |-> threshold,
                returned |-> FALSE, result |-> NoMatch]

call_find_best_match ==
    /\ fn.name = "find_best_match" /\ ~fn.returned
    /\ fn' = [fn EXCEPT !.returned = TRUE,
                        !.result = find_best_match(fn.query_tokens,
                                                   fn.candidates, fn.threshold)]
    /\ UNCHANGED service

NextBestMatch == call_find_best_match

SpecBestMatch == InitBestMatch /\ [][NextBestMatch]_vars

\* ------------------------------------------------ normalize_question, called
\* Longest text given to normalize_question.
MaxTextLen == 4

\* Characters of a question: a letter in each case, a digit, the underscore,
\* a punctuation mark, a space and a tab.
Alphabet == { "A", "b", "7", "_", "?", " ", "\t" }

Questions == UNION { [1..k -> Alphabet] : k \in 0..MaxTextLen }

\* A call of normalize_question(question), not yet returned.
InitNormalize ==
    /\ InitService
    /\ \E question \in Questions :
          fn = [name |-> "normalize_question", question |-> question,
                returned |-> FALSE, result |-> <<>>,
                renormalized |-> FALSE, again |-> <<>>]

call_normalize_question ==
    /\ fn.name = "normalize_question" /\ ~fn.returned
    /\ fn' = [fn EXCEPT !.returned = TRUE,
                        !.result = normalize_question(fn.question)]
    /\ UNCHANGED service

\* normalize_question called on the text it returned.
call_normalize_question_again ==
    /\ fn.name = "normalize_question" /\ fn.returned /\ ~fn.renormalized
    /\ fn' = [fn EXCEPT !.renormalized = TRUE,
                        !.again = normalize_question(fn.result)]
    /\ UNCHANGED service

NextNormalize == call_normalize_question \/ call_normalize_question_again

SpecNormalize == InitNormalize /\ [][NextNormalize]_vars

\* ================================================ ra_meetings: meeting labels
\* The empty dict.
EmptyMapping == <<>>

\* What the request to RA-crawler does, as fetch_meeting_labels sees it:
\* urlopen or resp.read() raising, or the body read.  A body is bytes that
\* are not UTF-8, text that is not JSON, or a JSON value: an object, or a
\* list of items; an item is an object (its keys a subset of the keys the
\* function reads, None for an absent key) or a number.
NoItemKeys ==
    [is_object |-> TRUE, meetingId |-> None, meeting_id |-> None,
     pf_meeting_id |-> None, track |-> None, track_name |-> None,
     state |-> None]

Responses ==
    { [kind |-> "timeout"], [kind |-> "url_error"],
      [kind |-> "not_utf8"], [kind |-> "not_json"], [kind |-> "json_object"],
      [kind |-> "json_list", items |-> << [is_object |-> FALSE] >>],
      [kind |-> "json_list", items |->
          << [NoItemKeys EXCEPT !.meetingId = "501", !.track = "Flemington",
                                !.state = "VIC"],
             [NoItemKeys EXCEPT !.meeting_id = "502", !.track_name = "Randwick"],
             [NoItemKeys EXCEPT !.meetingId = "501", !.track = "Caulfield",
                                !.state = "VIC"] >>],
      [kind |-> "json_list", items |->
          << [NoItemKeys EXCEPT !.meetingId = "n/a", !.track = "Ascot"],
             [NoItemKeys EXCEPT !.track = "Ascot", !.state = "WA"],
             [NoItemKeys EXCEPT !.pf_meeting_id = "502", !.track = "Rosehill",
                                !.state = "NSW"] >>] }

\* The responses that are failures of the lookup: no list of objects came back.
Failures ==
    { r \in Responses :
        \/ r.kind # "json_list"
        \/ \E i \in DOMAIN r.items : ~r.items[i].is_object }

\* int(mid) for the values of mid that are integers; any other raises
\* ValueError.
IntOf == ("501" :> 501) @@ ("502" :> 502)

\* Python `a or b` for values that are None or strings.
py_or(a, b) == IF a # None /\ a # "" THEN a ELSE b

\* The function returned the mapping / raised the exception.
Returned(labels) == [raised |-> FALSE, labels |-> labels]
Raised(exc) == [raised |-> TRUE, exc |-> exc]

RECURSIVE build_labels(_, _)
\* The loop `for item in data` of fetch_meeting_labels over the items still
\* to visit.  A label is the tuple of the parts of the formatted string.
build_labels(items, labels) ==
    IF items = <<>> THEN Returned(labels)
    ELSE LET item == Head(items) IN
         IF ~item.is_object THEN Raised("AttributeError")
         ELSE LET mid == py_or(py_or(item.meetingId, item.meeting_id),
                               item.pf_meeting_id)
                  track == py_or(item.track, item.track_name)
                  state == item.state
              IN IF mid = None \/ track = None
                 THEN build_labels(Tail(items), labels)
                 ELSE IF mid \notin DOMAIN IntOf
                 THEN build_labels(Tail(items), labels)
                 ELSE LET mid_int == IntOf[mid]
                          label == IF state # None /\ state # ""
                                   THEN <<track, " (", state, ")">>
                                   ELSE <<track>>
                      IN IF mid_int \notin DOMAIN labels
                         THEN build_labels(Tail(items), (mid_int :> label) @@ labels)
                         ELSE build_labels(Tail(items), labels)

\* The body of fetch_meeting_labels (what lru_cache wraps) for a response:
\* URLError, HTTPError, JSONDecodeError, TimeoutError and OSError raised in
\* the try block give {}; UnicodeDecodeError of raw.decode is none of them;
\* the loop is outside the try block, and iterating a JSON object yields its
\* keys, which are strings.
fetch_meeting_labels(response) ==
    IF response.kind \in {"timeout", "url_error", "not_json"}
    THEN Returned(EmptyMapping)
    ELSE IF response.kind = "not_utf8" THEN Raised("UnicodeDecodeError")
    ELSE IF response.kind = "json_object" THEN Raised("AttributeError")
    ELSE build_labels(response.items, EmptyMapping)

\* @lru_cache(maxsize=64)
maxsize == 64

\* The keys of the cache, and the position of the entry of a key.
lru_keys(cache) == { cache[i].key : i \in DOMAIN cache }
lru_index(cache, key) == CHOOSE i \in DOMAIN cache : cache[i].key = key

\* A cache hit makes the entry the most recently used.
lru_touch(cache, key) ==
    LET i == lru_index(cache, key)
    IN SelectSeq(cache, LAMBDA e : e.key # key) \o <<cache[i]>>

\* A cache that keeps no empty mapping.
lru_store_skip_empty(cache, key, value) ==
    IF key \in lru_keys(cache) \/ value = EmptyMapping THEN cache
    ELSE IF Len(cache) >= maxsize
    THEN Append(Tail(cache), [key |-> key, value |-> value])
    ELSE Append(cache, [key |-> key, value |-> value])

\* The wrapper of lru_cache after the function returned: the result is kept
\* unless the key was added while the function ran; a full cache drops its
\* least recently used entry.
lru_store(cache, key, value) ==
    IF key \in lru_keys(cache) THEN cache
    ELSE IF Len(cache) >= maxsize
    THEN Append(Tail(cache), [key |-> key, value |-> value])
    ELSE Append(cache, [key |-> key, value |-> value])

\* ------------------------------------------------------------ GET /ui/all
\* Total number of ui_all requests in one behaviour.
MaxLabelRequests == 3

\* The dates in use, in calendar order.
Calendar == <<"2025-11-29", "2025-11-30">>
DayOf(d) == CHOOSE i \in DOMAIN Calendar : Calendar[i] = d
\* _today_melbourne()
today == Calendar[1]

\* The canned answers stored when the page is requested: one race of meeting
\* 501 on the first day and one of meeting 502 on the second.
LabelAnswers ==
    { CannedAnswer(1, [date |-> Calendar[1], pf_meeting_id |-> 501,
                       race_number |-> 3, prompt_type |-> "value_play",
                       prompt_text |-> None, raw_response |-> "Horse 4"]),
      CannedAnswer(2, [date |-> Calendar[2], pf_meeting_id |-> 502,
                       race_number |-> 3, prompt_type |-> "value_play",
                       prompt_text |-> None, raw_response |-> "Horse 7"]) }

\* The start_date / end_date query parameters of ui_all.
UiRanges ==
    { [start_date |-> None, end_date |-> None],
      [start_date |-> Calendar[1], end_date |-> Calendar[1]],
      [start_date |-> Calendar[2], end_date |-> None] }

\* The service with the canned answers above stored and no label cached.
InitLabels ==
    /\ canned = LabelAnswers
    /\ nextId = Cardinality(LabelAnswers) + 1
    /\ pc = [p \in Workers |-> "ready"]
    /\ call = [p \in Workers |-> NoCall]
    /\ obj = [p \in Workers |-> NoObj]
    /\ res = [p \in Workers |-> NoRes]
    /\ started = 0
    /\ accepted = [k \in CannedKey |-> NoPayload]
    /\ overlap = [p \in Workers |-> FALSE]
    /\ served = [k \in CannedKey |-> 0]
    /\ freeform = {}
    /\ fn = NoFn
    /\ meeting_labels = {}
    /\ lru = <<>>
    /\ fetched = <<>>

\* MeetingLabel.pf_meeting_id is unique: the insert of rows for mids is
\* accepted only when no stored row has one of them.
uq_meeting_label(rows, mids) == \A r \in rows : r.pf_meeting_id \notin mids

\* The answers of the page: the start of the range defaults to today when no
\* bound is given; the DATE column is compared with each bound given.
answers_in_range(rows, range) ==
    LET start_date == IF range.start_date = None /\ range.end_date = None
                      THEN today ELSE range.start_date
    IN { a \in rows :
           /\ start_date # None => DayOf(a.date) >= DayOf(start_date)
           /\ range.end_date # None => DayOf(a.date) <= DayOf(range.end_date) }

\* labels = {r.pf_meeting_id: r.label for r in cached_rows}
cached_labels(rows, pf_ids) ==
    LET cached_rows == { r \in rows : r.pf_meeting_id \in pf_ids }
    IN [mid \in { r.pf_meeting_id : r \in cached_rows } |->
          (CHOOSE r \in cached_rows : r.pf_meeting_id = mid).label]

\* The page: the label attached to each meeting of the answers shown.
Page(labels) == Ok([labels |-> labels])

\* ui_all, first step: the answers of the range, the labels cached in
\* meeting_labels and, when a meeting has none, the call of
\* fetch_meeting_labels(lo, hi) up to the lookup in its lru_cache: a hit gives
\* the cached mapping, a miss sends the request to RA-crawler.
ui_all_query(p, range) ==
    /\ pc[p] = "ready"
    /\ started < MaxLabelRequests
    /\ started' = started + 1
    /\ call' = [call EXCEPT ![p] = [op |-> "ui_all", range |-> range]]
    /\ LET answers == answers_in_range(canned, range)
           pf_ids == { a.pf_meeting_id : a \in answers }
           labels == cached_labels(meeting_labels, pf_ids)
           missing_ids == pf_ids \ DOMAIN labels
       IN IF missing_ids = {}
          THEN /\ Return(p, Page(labels))
               /\ UNCHANGED lru
          ELSE LET days == { DayOf(a.date) : a \in answers }
                   lo == Calendar[CHOOSE d \in days : \A e \in days : d <= e]
                   hi == Calendar[CHOOSE d \in days : \A e \in days : d >= e]
                   key == [start |-> lo, end |-> hi]
               IN IF key \in lru_keys(lru)
                  THEN /\ pc' = [pc EXCEPT ![p] = "ui_commit"]
                       /\ obj' = [obj EXCEPT ![p] =
                             [labels |-> labels, missing_ids |-> missing_ids,
                              key |-> key, contacted |-> FALSE,
                              ra_labels |-> lru[lru_index(lru, key)].value]]
                       /\ lru' = lru_touch(lru, key)
                       /\ res' = [res EXCEPT ![p] = NoRes]
                  ELSE /\ pc' = [pc EXCEPT ![p] = "ui_fetch"]
                       /\ obj' = [obj EXCEPT ![p] =
                             [labels |-> labels, missing_ids |-> missing_ids,
                              key |-> key, contacted |-> TRUE,
                              ra_labels |-> EmptyMapping]]
                       /\ res' = [res EXCEPT ![p] = NoRes]
                       /\ UNCHANGED lru
    /\ UNCHANGED <<canned, nextId, accepted, overlap, served, freeform, fn,
                   meeting_labels, fetched>>

\* ui_all, second step: RA-crawler has answered; fetch_meeting_labels returns
\* its mapping, which lru_cache keeps, or raises, which ui_all does not catch.
ui_all_fetch(p, response) ==
    /\ pc[p] = "ui_fetch"
    /\ LET result == fetch_meeting_labels(response) IN
       IF result.raised
       THEN /\ Return(p, ServerError(result.exc))
            /\ UNCHANGED <<lru, fetched>>
       ELSE /\ pc' = [pc EXCEPT ![p] = "ui_commit"]
            /\ obj' = [obj EXCEPT ![p].ra_labels = result.labels]
            /\ lru' = lru_store(lru, obj[p].key, result.labels)
            /\ fetched' = IF obj[p].key \in DOMAIN fetched THEN fetched
                          ELSE (obj[p].key :> result.labels) @@ fetched
            /\ UNCHANGED res
    /\ UNCHANGED <<canned, nextId, call, started, accepted, overlap, served,
                   freeform, fn, meeting_labels>>

\* ui_all, third step: a MeetingLabel row is added for each missing meeting
\* RA-crawler has a non-empty label for, then db.commit(); the violation of
\* the unique constraint raises IntegrityError, which ui_all does not catch.
ui_all_commit(p) ==
    /\ pc[p] = "ui_commit"
    /\ LET ra_labels == obj[p].ra_labels
           mids == { mid \in obj[p].missing_ids :
                       mid \in DOMAIN ra_labels /\ ra_labels[mid] # <<"">> }
           rank(mid) == Cardinality({ m \in mids : m < mid })
           rows == { [id |-> nextId + rank(mid), pf_meeting_id |-> mid,
                      label |-> ra_labels[mid]] : mid \in mids }
           labels == [mid \in DOMAIN obj[p].labels \cup mids |->
                        IF mid \in mids THEN ra_labels[mid]
                        ELSE obj[p].labels[mid]]
       IN IF uq_meeting_label(meeting_labels, mids)
          THEN /\ meeting_labels' = meeting_labels \cup rows
               /\ nextId' = nextId + Cardinality(mids)
               /\ Return(p, Page(labels))
          ELSE /\ Return(p, ServerError("IntegrityError"))
               /\ UNCHANGED <<meeting_labels, nextId>>
    /\ UNCHANGED <<canned, call, started, accepted, overlap, served, freeform,
                   fn, lru, fetched>>

NextLabels ==
    \/ \E p \in Workers, range \in UiRanges : ui_all_query(p, range)
    \/ \E p \in Workers, response \in Responses : ui_all_fetch(p, response)
    \/ \E p \in Workers : ui_all_commit(p)

SpecLabels == InitLabels /\ [][NextLabels]_vars

\* ======================================================= exact-key cache
\* The response worker p holds for a completed create_canned_answer call.
CreateDone(p) == pc[p] = "ready" /\ call[p].op = "create"
\* The response worker p holds for a completed get_canned_answer call.
GetDone(p) == pc[p] = "ready" /\ call[p].op = "get"

\* The address bump_usage records for a request.
ExpectedIp(request) ==
    IF Len(request.xff) > 0 THEN request.xff[1] ELSE request.host

SameFirstUsed(r, s) ==
    /\ s.first_used_at = r.first_used_at
    /\ s.first_used_ip = r.first_used_ip
    /\ s.first_used_ua = r.first_used_ua

\* C1: first write wins.  Let P1 be the payload of the create call whose
\* insert created the entry of key K (K had no entry when that call ran, and
\* it ran to completion).  That call returns P1's raw_response; every create
\* call for K made after it, whatever its payload P2, returns P1's
\* raw_response as well; and the stored raw_response of K is P1's.
C1_FirstWriteWins ==
    \A p \in Workers :
        (CreateDone(p) /\ res[p].status = "OK") =>
            LET P1 == accepted[call[p].key] IN
            /\ res[p].body.raw_response = P1.raw_response
            /\ filter_by(canned, call[p].key) # {}
            /\ \A r \in filter_by(canned, call[p].key) :
                   r.raw_response = P1.raw_response

\* Two completed creates of one key with different raw_response: the first
\* inserted, the second found the entry.
C1_Witness ==
    \E a, b \in Workers :
        /\ CreateDone(a) /\ res[a].status = "OK"
        /\ CreateDone(b) /\ res[b].status = "OK"
        /\ call[a].key = call[b].key
        /\ call[a].payload = accepted[call[a].key]
        /\ call[b].payload.raw_response # call[a].payload.raw_response
        /\ res[b].body.raw_response = call[a].payload.raw_response

\* C2: every create_canned_answer call, also one that ran its existence check
\* before a concurrent create of the same key committed, returns successfully
\* with the raw_response of the insert the store accepted; no conflict error
\* reaches the caller.
C2_LoserReturnsExisting ==
    \A p \in Workers :
        CreateDone(p) =>
            /\ res[p].status = "OK"
            /\ res[p].body.raw_response = accepted[call[p].key].raw_response

\* C3: the store holds at most one CannedAnswer row per
\* (date, pf_meeting_id, race_number, prompt_type).
C3_OneEntryPerKey ==
    \A r, s \in canned : KeyOf(r) = KeyOf(s) => r = s

\* A create lost the race for its key: its insert was refused and the key has
\* exactly one row.
C3_Witness ==
    \E p \in Workers :
        /\ CreateDone(p)
        /\ res[p] = ServerError("IntegrityError")
        /\ Cardinality(filter_by(canned, call[p].key)) = 1

\* C4: per key the cache only moves absent -> present.  A key that has an
\* entry has one in the next state, with the same raw_response; and the stored
\* raw_response is the one stored at creation.
C4_AbsentToPresent ==
    /\ [](\A r \in canned : r.raw_response = accepted[KeyOf(r)].raw_response)
    /\ [][\A k \in CannedKey :
            filter_by(canned, k) # {} =>
                /\ filter_by(canned', k) # {}
                /\ {r.raw_response : r \in filter_by(canned', k)}
                     = {r.raw_response : r \in filter_by(canned, k)}]_vars

\* An entry that has been read, and that a later create with another
\* raw_response has found, still holds the raw_response of its creation.
C4_Witness ==
    \E p \in Workers :
        /\ CreateDone(p) /\ res[p].status = "OK"
        /\ call[p].payload.raw_response # accepted[call[p].key].raw_response
        /\ \E r \in filter_by(canned, call[p].key) :
               /\ r.use_count >= 1
               /\ r.raw_response = accepted[call[p].key].raw_response

\* C5: a get_canned_answer call that finds its key and overlaps no other get
\* of the key returns the stored raw_response, raises the entry's use_count
\* by exactly 1, sets last_used_at/ip/ua to this request's values, and sets
\* first_used_at/ip/ua only if they were unset; after a create and one get
\* the use_count is 1.
C5_GetBumpsUsage ==
    /\ [](\A k \in CannedKey :
            served[k] = 1 => \A r \in filter_by(canned, k) : r.use_count = 1)
    /\ [][\A p \in Workers :
            (get_canned_answer_commit(p) /\ ~overlap[p]) =>
                \E before \in filter_by(canned, call[p].key) :
                \E after \in filter_by(canned', call[p].key) :
                    /\ after.id = before.id
                    /\ res'[p].status = "OK"
                    /\ res'[p].body.raw_response = before.raw_response
                    /\ after.raw_response = before.raw_response
                    /\ after.prompt_text = before.prompt_text
                    /\ after.use_count = before.use_count + 1
                    /\ after.last_used_at = call[p].request.now
                    /\ after.last_used_ip = ExpectedIp(call[p].request)
                    /\ after.last_used_ua = call[p].request.ua
                    /\ IF before.first_used_at = None
                       THEN /\ after.first_used_at = call[p].request.now
                            /\ after.first_used_ip = ExpectedIp(call[p].request)
                            /\ after.first_used_ua = call[p].request.ua
                       ELSE SameFirstUsed(before, after)]_vars

\* The second of two gets of a key, neither overlapping another get, has
\* committed: use_count is 2 and last_used is this request's, not the first's.
C5_Witness ==
    \E p \in Workers :
        /\ GetDone(p) /\ res[p].status = "OK" /\ ~overlap[p]
        /\ served[call[p].key] = 2
        /\ \E r \in filter_by(canned, call[p].key) :
               /\ r.use_count = 2
               /\ r.last_used_at = call[p].request.now
               /\ r.first_used_at # r.last_used_at

\* C6: first_used_at/ip/ua are set once: once an entry's first_used_at is
\* set, no step (in particular no commit of a get whose query ran before the
\* fields were set) changes first_used_at, first_used_ip or first_used_ua.
C6_FirstUsedSetOnce ==
    [][\A r \in canned :
          r.first_used_at # None =>
              \A s \in canned' : s.id = r.id => SameFirstUsed(r, s)]_vars

\* C7: the stored use_count of an entry is >= 0 and never decreases from one
\* state to the next, whatever the interleaving of queries and write-backs.
C7_UseCountMonotonic ==
    [][\A r \in canned :
          /\ r.use_count >= 0
          /\ \A s \in canned' : s.id = r.id => s.use_count >= r.use_count]_vars

\* C8: a get_canned_answer for a key without an entry answers NOT_FOUND and
\* leaves the store as it is: no row is created and no row is modified.
C8_GetMissLeavesStore ==
    [][\A p \in Workers, key \in CannedKey, request \in Requests :
          (get_canned_answer_query(p, key, request) /\ filter_by(canned, key) = {}) =>
              /\ res'[p].status = "NOT_FOUND"
              /\ pc'[p] = "ready"
              /\ canned' = canned]_vars

\* A get has missed its key while the other key holds an entry that has been
\* read.
C8_Witness ==
    \E p \in Workers :
        /\ GetDone(p) /\ res[p].status = "NOT_FOUND"
        /\ filter_by(canned, call[p].key) = {}
        /\ \E r \in canned : r.use_count >= 1

\* C9: a step of create_canned_answer on a key that has an entry (the query
\* that finds it, or the commit of a create that lost the race) leaves every
\* row of the store, that entry's and all others', as it is.
C9_CreateOnExistingIsNoOp ==
    [][\A p \in Workers :
          /\ \A payload \in CannedAnswerIn :
                (create_canned_answer_query(p, payload)
                    /\ filter_by(canned, payload) # {}) => canned' = canned
          /\ (create_canned_answer_commit(p)
                    /\ filter_by(canned, call[p].key) # {}) => canned' = canned]_vars

\* A create with another payload has returned on a key whose entry carries
\* usage metadata, while the other key has an entry too.
C9_Witness ==
    \E p \in Workers :
        /\ CreateDone(p) /\ res[p].status = "OK"
        /\ call[p].payload # accepted[call[p].key]
        /\ \E r \in filter_by(canned, call[p].key) :
               /\ r.first_used_at # None
               /\ r.prompt_text = accepted[call[p].key].prompt_text
        /\ \E r \in canned : KeyOf(r) # call[p].key

\* ===================================================== freeform questions
SubmitDone(p) == pc[p] = "ready" /\ call[p].op = "submit"

\* C10: a scope holds at most one FreeformQuestion row with a given
\* question_normalized, under every interleaving of create_freeform_question
\* calls.
C10_OneEntryPerNormalizedQuestion ==
    \A r, s \in freeform :
        (ScopeOf(r) = ScopeOf(s) /\ r.question_normalized = s.question_normalized)
            => r = s

\* A submit whose text differs from the stored question, but normalizes to
\* the same string, ran its duplicate check before the stored row was
\* committed, and its insert was refused.
C10_Witness ==
    \E p \in Workers :
        /\ SubmitDone(p)
        /\ res[p] = ServerError("IntegrityError")
        /\ \E r \in filter_by_scope(freeform, call[p].key) :
               /\ r.question # call[p].payload.question
               /\ r.question_normalized = normalize_question(call[p].payload.question)

\* C11: a create_freeform_question call whose text normalizes to the
\* question_normalized of an entry already stored in its scope (the second of
\* two sequential calls) returns that entry's question and raw_response with
\* use_count 0, and leaves the table as it was, so that no second entry for
\* the normalized question appears.
C11_DuplicateReturnsExisting ==
    [][\A p \in Workers, payload \in FreeformQuestionIn :
          LET found == filter_by_normalized(freeform, payload,
                           normalized_text[payload.question])
          IN (create_freeform_question_query(p, payload) /\ found # {}) =>
                /\ freeform' = freeform
                /\ \E r \in found :
                       /\ res'[p].status = "OK"
                       /\ res'[p].body.question = r.question
                       /\ res'[p].body.raw_response = r.raw_response
                       /\ res'[p].body.use_count = 0
                /\ pc'[p] = "ready"]_vars

\* A second submit, with another text and another answer than the stored
\* entry of its scope, has been answered with the stored entry.
C11_Witness ==
    \E p \in Workers :
        /\ SubmitDone(p) /\ res[p].status = "OK"
        /\ Cardinality(filter_by_scope(freeform, call[p].key)) = 1
        /\ \E r \in filter_by_scope(freeform, call[p].key) :
               /\ r.question_normalized = normalize_question(call[p].payload.question)
               /\ r.question # call[p].payload.question
               /\ r.raw_response # call[p].payload.raw_response
               /\ res[p].body.question = r.question
               /\ res[p].body.raw_response = r.raw_response

\* ========================================================== similarity
JaccardReturned == fn.name = "jaccard_similarity" /\ fn.returned

\* C19: jaccard_similarity(A, B) lies between 0.0 and 1.0, is 1.0 when A and
\* B are the same non-empty set, and is 0.0 when both are empty.
C19_JaccardRange ==
    JaccardReturned =>
        /\ FLeq(Zero, fn.result) /\ FLeq(fn.result, One)
        /\ (fn.set_a = fn.set_b /\ fn.set_a # {}) => FEq(fn.result, One)
        /\ (fn.set_a = {} /\ fn.set_b = {}) => FEq(fn.result, Zero)

\* jaccard_similarity has returned 1.0 for a set of two tokens and itself.
C19_Witness ==
    /\ JaccardReturned
    /\ fn.set_a = fn.set_b /\ Cardinality(fn.set_a) = 2
    /\ FEq(fn.result, One)

SimilarityReturned == fn.name = "compute_similarity" /\ fn.returned

\* C20: compute_similarity is at least the Jaccard similarity of the two
\* token sets and at most 1.0; it is strictly greater only when the query set
\* is non-empty, a subset of the stored set and the Jaccard similarity is
\* below 1.0; it equals the Jaccard similarity when the query set is empty or
\* is not a subset of the stored set.
C20_BoostOnlyForSubsets ==
    SimilarityReturned =>
        LET query_set == Range(fn.query_tokens)
            stored_set == Range(fn.stored_tokens)
            jaccard == jaccard_similarity(query_set, stored_set)
        IN /\ FLeq(jaccard, fn.result) /\ FLeq(fn.result, One)
           /\ FLess(jaccard, fn.result) =>
                 /\ query_set # {}
                 /\ query_set \subseteq stored_set
                 /\ FLess(jaccard, One)
           /\ (query_set = {} \/ ~(query_set \subseteq stored_set)) =>
                 FEq(fn.result, jaccard)

\* compute_similarity has returned 0.55 for a one-token query against a stored
\* list holding that token and another: Jaccard 0.5 plus the boost.
C20_Witness ==
    /\ SimilarityReturned
    /\ Cardinality(Range(fn.query_tokens)) = 1
    /\ Cardinality(Range(fn.stored_tokens)) = 2
    /\ Range(fn.query_tokens) \subseteq Range(fn.stored_tokens)
    /\ FEq(fn.result, Frac(11, 20))

\* ========================================================= find_best_match
BestMatchReturned == fn.name = "find_best_match" /\ fn.returned

\* The score of candidate i of the call for the query of the call.
ScoreOf(i) == compute_similarity(fn.query_tokens, fn.candidates[i][2])

\* The position in the candidate list of the record find_best_match returned.
PositionOfResult ==
    CHOOSE i \in DOMAIN fn.candidates : fn.candidates[i][1] = fn.result.record

\* C13: whenever find_best_match returns (record, score), the score is at
\* least the threshold, the record is one of the candidates, and the score is
\* compute_similarity of the query tokens and that record's stored tokens.
C13_ThresholdGate ==
    (BestMatchReturned /\ fn.result.found) =>
        /\ FLeq(fn.threshold, fn.result.score)
        /\ \E i \in DOMAIN fn.candidates :
              /\ fn.candidates[i][1] = fn.result.record
              /\ fn.result.score = ScoreOf(i)

\* find_best_match has returned a candidate whose score, 0.5, is exactly the
\* threshold, from a list holding a candidate of score 0 too.
C13_Witness ==
    /\ BestMatchReturned /\ fn.result.found
    /\ FEq(fn.result.score, fn.threshold)
    /\ FEq(fn.threshold, Frac(1, 2))
    /\ \E i \in DOMAIN fn.candidates : FEq(ScoreOf(i), Zero)

\* C14: find_best_match returns None only when the candidate list is empty or
\* the maximum score over the candidates is strictly below the threshold; in
\* every other case, threshold 0.0 with maximum score 0.0 included, it returns
\* a candidate and its score.
C14_NoneOnlyBelowThreshold ==
    BestMatchReturned =>
        (~fn.result.found <=>
            \/ fn.candidates = <<>>
            \/ \A i \in DOMAIN fn.candidates : FLess(ScoreOf(i), fn.threshold))

\* C15: the candidate find_best_match returns has the maximum score over all
\* candidates and is the first, in list order, of the candidates with that
\* score.
C15_FirstOfTheBest ==
    (BestMatchReturned /\ fn.result.found) =>
        /\ \A i \in DOMAIN fn.candidates : FLeq(ScoreOf(i), fn.result.score)
        /\ \A i \in DOMAIN fn.candidates :
              FEq(ScoreOf(i), fn.result.score) => PositionOfResult <= i

\* find_best_match has returned the second of three candidates: the first
\* scores less, and the third, with other stored tokens, scores the same.
C15_Witness ==
    /\ BestMatchReturned /\ fn.result.found
    /\ Len(fn.candidates) = 3 /\ PositionOfResult = 2
    /\ FLess(ScoreOf(1), ScoreOf(2))
    /\ FEq(ScoreOf(3), ScoreOf(2))
    /\ fn.candidates[3][2] # fn.candidates[2][2]

\* ========================================================= freeform match
MatchDone(p) == pc[p] = "ready" /\ call[p].op = "match"

\* The tokens match_freeform_question derives from a query text.
QueryTokensOf(question) == tokenize_question(normalized_text[question])

\* C12: a match_freeform_question call whose query has no token left after
\* normalization and stop-word removal is answered 400 (INVALID_QUERY), not
\* 404, whatever its scope holds, and writes no row.
C12_EmptyQueryIsInvalid ==
    [][\A p \in Workers, scope \in FreeformQuestionKey,
          question \in MatchQueries, threshold \in MatchThresholds :
          (match_freeform_question_query(p, scope, question, threshold)
              /\ QueryTokensOf(question) = <<>>) =>
                /\ res'[p] = BadRequest("Query contains only stop words or is empty")
                /\ pc'[p] = "ready"
                /\ freeform' = freeform]_vars

\* A query of stop words only has been answered 400 in a scope that holds an
\* entry, and another in a scope that holds none.
C12_Witness ==
    \E p, q \in Workers :
        /\ MatchDone(p) /\ res[p].status = "BAD_REQUEST"
        /\ filter_by_scope(freeform, call[p].key) # {}
        /\ MatchDone(q) /\ res[q].status = "BAD_REQUEST"
        /\ filter_by_scope(freeform, call[q].key) = {}

\* C16: the commit of a match that overlapped no other match of the same
\* winner raises the stored use_count of the winner by exactly 1 and leaves
\* its other columns and every other row as they are; the response carries
\* the winner's question and raw_response.  The first step of a match, the
\* 404 outcomes included, writes no row.
C16_MatchBumpsOnlyTheWinner ==
    [][/\ \A p \in Workers :
             (match_freeform_question_commit(p) /\ ~overlap[p]) =>
                 \E stored \in freeform :
                    /\ stored.id = obj[p].best_row.id
                    /\ freeform' = (freeform \ {stored}) \cup
                          {[stored EXCEPT !.use_count = stored.use_count + 1]}
                    /\ res'[p].status = "OK"
                    /\ res'[p].body.question = stored.question
                    /\ res'[p].body.raw_response = stored.raw_response
       /\ \A p \in Workers, scope \in FreeformQuestionKey,
             question \in MatchQueries, threshold \in MatchThresholds :
             match_freeform_question_query(p, scope, question, threshold) =>
                 freeform' = freeform]_vars

\* A match that overlapped no other has returned an entry whose use_count is
\* now 1, in a scope holding another entry, whose use_count is still 0.
C16_Witness ==
    \E p \in Workers :
        /\ MatchDone(p) /\ res[p].status = "OK" /\ ~overlap[p]
        /\ \E r, s \in filter_by_scope(freeform, call[p].key) :
              /\ r.question = res[p].body.question /\ r.use_count = 1
              /\ s # r /\ s.use_count = 0

\* The rows of a scope, by comparison of the three scope columns.
InScope(rows, scope) ==
    { r \in rows : <<r.date, r.pf_meeting_id, r.race_number>>
                      = <<scope.date, scope.pf_meeting_id, scope.race_number>> }

\* What find_best_match may return for a set of rows, over the orders in
\* which the rows may be listed.
MatchResults(rows, query_tokens, threshold) ==
    { find_best_match(query_tokens,
                      [i \in DOMAIN order |->
                          <<order[i], json_to_tokens(order[i].question_tokens)>>],
                      threshold) : order \in Orderings(rows) }

\* C17: a match in scope S chooses its winner among the rows of S, and its
\* outcome is one that the rows of S alone give: rows of other scopes neither
\* win nor change the result.  Its commit writes no row of another scope.
C17_ScopeIsolation ==
    [][/\ \A p \in Workers, scope \in FreeformQuestionKey,
             question \in MatchQueries, threshold \in MatchThresholds :
             (match_freeform_question_query(p, scope, question, threshold)
                 /\ QueryTokensOf(question) # <<>>) =>
                LET results == MatchResults(InScope(freeform, scope),
                                            QueryTokensOf(question), threshold)
                IN IF pc'[p] = "match_commit"
                   THEN /\ ScopeOf(obj'[p].best_row) = scope
                        /\ Match(obj'[p].best_row, obj'[p].confidence) \in results
                   ELSE /\ res'[p] = NotFound("No matching question found")
                        /\ NoMatch \in results
       /\ \A p \in Workers :
             match_freeform_question_commit(p) =>
                /\ \A r \in freeform : ScopeOf(r) # call[p].key => r \in freeform'
                /\ \A r \in freeform' : ScopeOf(r) # call[p].key => r \in freeform
                /\ \E r \in InScope(freeform, call[p].key) :
                      /\ res'[p].body.question = r.question
                      /\ res'[p].body.raw_response = r.raw_response]_vars

\* A match has returned the entry of its scope and raised its use_count,
\* while the other scope holds an entry of the same tokens, untouched.
C17_Witness ==
    \E p \in Workers :
        /\ MatchDone(p) /\ res[p].status = "OK"
        /\ \E r \in filter_by_scope(freeform, call[p].key) : r.use_count = 1
        /\ \E s \in freeform :
              /\ ScopeOf(s) # call[p].key
              /\ s.use_count = 0
              /\ \E r \in filter_by_scope(freeform, call[p].key) :
                    s.question_tokens = r.question_tokens

\* The token sets of the worked example.
BestValuePlay == { <<"b", "e", "s", "t">>, <<"v", "a", "l", "u", "e">>, <<"p", "l", "a", "y">> }
WhatBestValuePlayRace == BestValuePlay \cup { <<"w", "h", "a", "t">>, <<"r", "a", "c", "e">> }

\* The scope holds a single entry, whose stored tokens are what, best, value,
\* play, race.
SingleEntry(scope) ==
    /\ Cardinality(filter_by_scope(freeform, scope)) = 1
    /\ \A r \in filter_by_scope(freeform, scope) :
          Range(json_to_tokens(r.question_tokens)) = WhatBestValuePlayRace

\* C18: a query of tokens best, value, play against a scope whose single
\* entry has tokens what, best, value, play, race scores 0.64: at threshold
\* 0.70 the match is answered 404 and writes nothing; at threshold 0.60 it
\* chooses the entry with score 0.64, and its commit answers with confidence
\* 0.64 and takes a use_count of 0 to 1.
C18_WorkedExample ==
    [][/\ \A p \in Workers, scope \in FreeformQuestionKey,
             question \in MatchQueries, threshold \in MatchThresholds :
             (match_freeform_question_query(p, scope, question, threshold)
                 /\ Range(QueryTokensOf(question)) = BestValuePlay
                 /\ SingleEntry(scope)) =>
                /\ freeform' = freeform
                /\ FEq(threshold, Frac(7, 10)) =>
                      res'[p] = NotFound("No matching question found")
                /\ FEq(threshold, Frac(3, 5)) =>
                      /\ pc'[p] = "match_commit"
                      /\ obj'[p].best_row \in filter_by_scope(freeform, scope)
                      /\ FEq(obj'[p].confidence, Frac(64, 100))
       /\ \A p \in Workers :
             (match_freeform_question_commit(p)
                 /\ FEq(obj[p].confidence, Frac(64, 100))) =>
                /\ res'[p].status = "OK"
                /\ res'[p].body.confidence = Frac(6400, 10000)
                /\ \A r \in freeform :
                      (r.id = obj[p].best_row.id /\ r.use_count = 0) =>
                          [r EXCEPT !.use_count = 1] \in freeform']_vars

\* In a scope whose single entry is the stored question of the example, now
\* with use_count 1, one match was answered 404 at threshold 0.70 and another
\* was answered with the entry and confidence 0.64 at threshold 0.60.
C18_Witness ==
    \E p, q \in Workers :
        /\ MatchDone(p) /\ MatchDone(q) /\ call[p].key = call[q].key
        /\ SingleEntry(call[p].key)
        /\ \A r \in filter_by_scope(freeform, call[p].key) : r.use_count = 1
        /\ FEq(call[p].threshold, Frac(7, 10)) /\ res[p].status = "NOT_FOUND"
        /\ FEq(call[q].threshold, Frac(3, 5)) /\ res[q].status = "OK"
        /\ res[q].body.confidence = Frac(6400, 10000)

\* ====================================================== normalize_question
NormalizeReturned == fn.name = "normalize_question" /\ fn.returned

\* C21: normalize_question is idempotent: normalizing the text it returned
\* gives that text again.
C21_NormalizeIdempotent ==
    (NormalizeReturned /\ fn.renormalized) => fn.again = fn.result

\* A question with an uppercase letter, a punctuation mark and a tab has been
\* normalized twice, to a text of two words.
C21_Witness ==
    /\ NormalizeReturned /\ fn.renormalized
    /\ {"A", "?", "\t"} \subseteq Range(fn.question)
    /\ " " \in Range(fn.result)
    /\ fn.again = fn.result

\* C22: the text normalize_question returns holds only lowercase letters,
\* digits and single spaces: every other character, the underscore included,
\* is removed, no two spaces are adjacent, none leads or trails, and the
\* empty question gives the empty text.
C22_OnlyAlphanumericsAndSpaces ==
    NormalizeReturned =>
        /\ \A i \in DOMAIN fn.result :
              fn.result[i] \in Range(LowerChars) \cup Digits \cup {" "}
        /\ \A i \in DOMAIN fn.result :
              (fn.result[i] = " ") =>
                  /\ i # 1 /\ i # Len(fn.result)
                  /\ fn.result[i + 1] # " "
        /\ (fn.question = <<>>) => (fn.result = <<>>)

\* ================================================ exact-key cache: usage
\* C25: for every stored entry of the exact-key cache, use_count is 0 exactly
\* when first_used_at is unset, and first_used_at is unset exactly when
\* last_used_at is unset.
C25_CountAndUsageMetadataAgree ==
    \A r \in canned :
        /\ (r.use_count = 0) <=> (r.first_used_at = None)
        /\ (r.first_used_at = None) <=> (r.last_used_at = None)

\* One entry has been read twice, by different requests, and another entry
\* has never been read.
C25_Witness ==
    \E r, s \in canned :
        /\ r.use_count = 2 /\ r.first_used_at # None
        /\ r.last_used_at # r.first_used_at
        /\ s.use_count = 0 /\ s.first_used_at = None /\ s.last_used_at = None

\* C26: the use_count of an entry is at most the number of get_canned_answer
\* calls that have committed on its key; and the commit of a get that
\* overlapped no other get on the key keeps it equal to that number, so that
\* the two are equal whenever no two gets on the key overlapped.
C26_UseCountCountsCommittedGets ==
    /\ [](\A r \in canned : r.use_count <= served[KeyOf(r)])
    /\ [][\A p \in Workers :
            (get_canned_answer_commit(p) /\ ~overlap[p]) =>
                \A r \in filter_by(canned, call[p].key) :
                    (r.use_count = served[call[p].key]) =>
                        \E t \in filter_by(canned', call[p].key) :
                            /\ t.id = r.id
                            /\ t.use_count = served'[call[p].key]
                            /\ t.use_count = r.use_count + 1]_vars

\* Two gets that did not overlap have committed on a key: the entry's
\* use_count is 2, the number of committed gets.
C26_Witness ==
    /\ \E r \in canned : r.use_count = 2 /\ served[KeyOf(r)] = 2
    /\ \A p \in Workers : pc[p] = "ready" /\ ~overlap[p]

\* ========================================================= meeting labels
UiDone(p) == pc[p] = "ready" /\ call[p].op = "ui_all"

\* C23: fetch_meeting_labels never propagates an error: on every failure of
\* the lookup (timeout, network error, a body that is not UTF-8 or not JSON,
\* a JSON body that is not a list of objects) it returns the empty mapping.
C23_FetchDegradesToEmpty ==
    [][\A p \in Workers, response \in Failures :
          ui_all_fetch(p, response) =>
              /\ pc'[p] = "ui_commit"
              /\ obj'[p].ra_labels = EmptyMapping]_vars

\* C24: under every interleaving of ui_all requests, meeting_labels holds at
\* most one row per pf_meeting_id, a stored row is never changed or removed,
\* and no request fails because of the insert of a label.
C24_LabelInsertIsSafe ==
    /\ [](\A r, s \in meeting_labels :
             r.pf_meeting_id = s.pf_meeting_id => r = s)
    /\ [](\A p \in Workers : UiDone(p) => res[p] # ServerError("IntegrityError"))
    /\ [][\A r \in meeting_labels : r \in meeting_labels']_vars

====
